---- MODULE Spec2Model ----
(***************************************************************************)
(* Batch audio-transcription harness: main.py, Config, FileHandler,        *)
(* Exporter and TranscriptionPipeline.                                      *)
(*                                                                         *)
(* Strings are sequences of one-character strings, so that pathlib's stem, *)
(* str.lower, glob suffix matching and path ordering are computed the way  *)
(* the library computes them.                                              *)
(***************************************************************************)
EXTENDS Integers, Sequences, FiniteSets, TLC

VARIABLES
    platform,      \* [posix, py314]: path flavour and pathlib version in use
    config_file,   \* what is on disk at args.config: "missing", "malformed" or a tree
    args,          \* the parsed command line (None for an absent flag)
    config,        \* Config._config once loaded
    input_dir,     \* names of the files in FileHandler.input_dir
    output_dir,    \* names of the files in FileHandler.output_dir
    pc,            \* position in main() / TranscriptionPipeline.run()
    exit_code,     \* process exit status, -1 while running
    pipeline,      \* what TranscriptionPipeline.__init__ handed to its components
    stats,         \* TranscriptionPipeline.stats
    audio_files,   \* the list find_audio_files returned
    idx,           \* number of files the for loop of run() has finished
    result,        \* the local variable result of _process_file
    log,           \* history of the calls made to the external collaborators
    faults,        \* what each format's serialization did in the last export call
    ret,           \* value returned by the last Exporter.export call
    srt_file       \* the lines the last export_srt call wrote to its .srt file

vars == <<platform, config_file, args, config, input_dir, output_dir, pc,
          exit_code, pipeline, stats, audio_files, idx, result, log, faults, ret,
          srt_file>>

(***************************************************************************)
(* Bounds                                                                  *)
(***************************************************************************)
MaxExts == 2       \* longest processing.audio_extensions list enumerated
MaxFormats == 2    \* longest output.formats list enumerated
MaxFiles == 3      \* most audio files in the input directory of a run
MaxSegments == 2   \* most segments in the result handed to export_srt
MaxMillis == 2000  \* every time from 0 to MaxMillis milliseconds is enumerated
SegmentMillis == 2500   \* length of an enumerated segment, in milliseconds

(***************************************************************************)
(* Characters and strings                                                  *)
(***************************************************************************)
\* The characters in use, in code-point order.
Chars == <<".", "3", "A", "M", "P", "W", "_", "a", "b", "c", "d", "i", "j",
           "l", "m", "n", "o", "p", "r", "s", "t", "v", "w", "x">>

ord(c) == CHOOSE i \in 1..Len(Chars) : Chars[i] = c

\* str.lower on one character
lower_char(c) ==
    CASE c = "A" -> "a"
      [] c = "M" -> "m"
      [] c = "P" -> "p"
      [] c = "W" -> "w"
      [] OTHER -> c

\* str.lower
lower(s) == [i \in 1..Len(s) |-> lower_char(s[i])]

\* str.rfind('.'): 0-based index of the last dot, -1 when there is none
rfind_dot(s) ==
    IF \E i \in 1..Len(s) : s[i] = "."
    THEN (CHOOSE i \in 1..Len(s) : s[i] = "." /\ \A j \in (i+1)..Len(s) : s[j] # ".") - 1
    ELSE -1

endswith(s, suf) ==
    /\ Len(suf) <= Len(s)
    /\ \A i \in 1..Len(suf) : s[Len(s) - Len(suf) + i] = suf[i]

\* Python's ordering of two str values (code points, a proper prefix first)
str_less(a, b) ==
    \E k \in 1..(Len(b)) :
        /\ \A i \in 1..(k-1) : i <= Len(a) /\ a[i] = b[i]
        /\ \/ k = Len(a) + 1
           \/ k <= Len(a) /\ ord(a[k]) < ord(b[k])

(***************************************************************************)
(* pathlib                                                                 *)
(***************************************************************************)
\* PurePath.stem of a file name.  Before Python 3.14 a trailing dot is no
\* suffix (0 < i < len(name) - 1); from 3.14 on a single dot is a suffix.
stem(name) ==
    LET i == rfind_dot(name)
    IN  IF platform.py314
        THEN IF 0 < i THEN SubSeq(name, 1, i) ELSE name
        ELSE IF 0 < i /\ i < Len(name) - 1 THEN SubSeq(name, 1, i) ELSE name

\* os.path.normcase as the path flavour applies it when comparing and matching
normcase(name) == IF platform.posix THEN name ELSE lower(name)

\* Path.__lt__ for two entries of the same directory
path_less(a, b) == str_less(normcase(a), normcase(b))

\* Path.glob("*" + ext) on a directory: the wildcard selector matches the
\* entry names against the pattern with the flavour's case rule.
glob_star(dir, ext) == {n \in dir : endswith(normcase(n), normcase(ext))}

\* list.sort() of a list of paths (stable insertion into a sorted prefix)
RECURSIVE insert_sorted(_, _)
insert_sorted(x, s) ==
    IF s = <<>> THEN <<x>>
    ELSE IF path_less(x, Head(s)) THEN <<x>> \o s
    ELSE <<Head(s)>> \o insert_sorted(x, Tail(s))

RECURSIVE sort(_)
sort(s) == IF s = <<>> THEN <<>> ELSE insert_sorted(s[Len(s)], sort(SubSeq(s, 1, Len(s) - 1)))

\* the entries of a set in the order the directory scan yields them
RECURSIVE listing(_)
listing(S) ==
    IF S = {} THEN <<>>
    ELSE LET x == CHOOSE y \in S : \A z \in S : z = y \/ path_less(y, z) \/ ~path_less(z, y)
         IN  <<x>> \o listing(S \ {x})

(***************************************************************************)
(* FileHandler                                                             *)
(***************************************************************************)
\* FileHandler.__init__: self.audio_extensions
FileHandler_audio_extensions(audio_extensions) ==
    [i \in 1..Len(audio_extensions) |-> lower(audio_extensions[i])]

\* FileHandler.find_audio_files
RECURSIVE extend_all(_, _)
extend_all(dir, exts) ==
    IF exts = <<>> THEN <<>>
    ELSE listing(glob_star(dir, Head(exts))) \o extend_all(dir, Tail(exts))

find_audio_files(dir, exts) == sort(extend_all(dir, exts))

Transcricao == <<"_", "t", "r", "a", "n", "s", "c", "r", "i", "c", "a", "o", ".">>

\* FileHandler.get_output_path: the name inside output_dir
get_output_path(audio_path, extension) == stem(audio_path) \o Transcricao \o extension

\* output_exists with any() in place of all()
output_exists_any(outdir, audio_path, formats) ==
    \E i \in 1..Len(formats) : get_output_path(audio_path, formats[i]) \in outdir

\* FileHandler.output_exists
output_exists(outdir, audio_path, formats) ==
    \A i \in 1..Len(formats) : get_output_path(audio_path, formats[i]) \in outdir

(***************************************************************************)
(* Config                                                                  *)
(***************************************************************************)
\* YAML / Python values, tagged with their type
None == [t |-> "none"]
Str(s) == [t |-> "str", v |-> s]
Bool(b) == [t |-> "bool", v |-> b]
List(l) == [t |-> "list", v |-> l]
Dict(f) == [t |-> "dict", v |-> f]

\* Python truth value of a tagged value
truthy(x) ==
    CASE x.t = "none" -> FALSE
      [] x.t = "bool" -> x.v
      [] x.t = "str"  -> x.v # ""
      [] x.t = "list" -> x.v # <<>>
      [] OTHER        -> DOMAIN x.v # {}

\* dict.get(key)
dict_get(d, key) == IF key \in DOMAIN d.v THEN d.v[key] ELSE None

\* Config.get: key_path is given already split on '.'
RECURSIVE get(_, _, _)
get(value, keys, default) ==
    IF keys = <<>> THEN value
    ELSE IF value.t = "dict"
         THEN LET nv == dict_get(value, Head(keys))
              IN  IF nv.t = "none" THEN default ELSE get(nv, Tail(keys), default)
         ELSE default

device_type(cfg) == get(cfg, <<"device", "type">>, Str("cuda"))
whisper_model(cfg) == get(cfg, <<"whisper", "model_size">>, Str("large-v2"))
input_path(cfg) == get(cfg, <<"paths", "input">>, Str("data/input"))
output_path(cfg) == get(cfg, <<"paths", "output">>, Str("data/output"))

mp3 == <<".", "m", "p", "3">>
wav == <<".", "w", "a", "v">>
json == <<"j", "s", "o", "n">>
txt == <<"t", "x", "t">>
srt == <<"s", "r", "t">>
xml == <<"x", "m", "l">>

audio_extensions(cfg) == get(cfg, <<"processing", "audio_extensions">>, List(<<mp3, wav>>))
output_formats(cfg) == get(cfg, <<"output", "formats">>, List(<<json, txt, srt>>))

\* Config._load_config: the outcome of reading the file at args.config
load_config(file) ==
    CASE file.t = "missing"   -> [raised |-> "FileNotFoundError", cfg |-> None]
      [] file.t = "malformed" -> [raised |-> "YAMLError", cfg |-> None]
      [] OTHER                -> [raised |-> "no", cfg |-> file.v]

(***************************************************************************)
(* main: command-line overrides                                            *)
(***************************************************************************)
\* config._config[section][key] = value; raises TypeError / KeyError unless
\* _config and _config[section] are both mappings
setitem(r, section, key, value) ==
    IF r.raised THEN r
    ELSE IF r.cfg.t = "dict" /\ section \in DOMAIN r.cfg.v /\ r.cfg.v[section].t = "dict"
         THEN LET old == r.cfg.v[section].v
                  new == [k \in DOMAIN old \cup {key} |-> IF k = key THEN value ELSE old[k]]
              IN  [raised |-> FALSE,
                   cfg |-> Dict([r.cfg.v EXCEPT ![section] = Dict(new)])]
         ELSE [raised |-> TRUE, cfg |-> r.cfg]

override(r, flag, section, key) == IF truthy(flag) THEN setitem(r, section, key, flag) ELSE r

\* main lines 97-104
apply_overrides(cfg, a) ==
    override(
        override(
            override(
                override([raised |-> FALSE, cfg |-> cfg], a.input, "paths", "input"),
                a.output, "paths", "output"),
            a.device, "device", "type"),
        a.model, "whisper", "model_size")

(***************************************************************************)
(* Exporter                                                                *)
(***************************************************************************)
\* export_json / export_txt / export_srt: base_path.parent / f"{base_path.stem}.<ext>"
export_path(base_path, ext) == stem(base_path) \o <<".">> \o ext

export_json(base_path) == export_path(base_path, json)
export_txt(base_path) == export_path(base_path, txt)
export_srt(base_path) == export_path(base_path, srt)

known_format(fmt) == fmt \in {json, txt, srt}

format_path(base_path, fmt) ==
    CASE fmt = json -> export_json(base_path)
      [] fmt = txt  -> export_txt(base_path)
      [] OTHER      -> export_srt(base_path)

(***************************************************************************)
(* Exporter: the text of an SRT file                                       *)
(*                                                                         *)
(* A time is a whole number t of milliseconds; the argument of            *)
(* _to_srt_time is the binary64 number nearest to t/1000, which is what a  *)
(* segment boundary of t milliseconds is as a Python float.  The float     *)
(* operations of _to_srt_time are computed on integers: with               *)
(* 2^L <= t/1000 < 2^(L+1) the significand is t * 2^(52-L) / 1000 rounded  *)
(* to the nearest integer (ties to even), and the remainder of that        *)
(* division says on which side of t/1000 the float lies.                   *)
(***************************************************************************)
RECURSIVE pow2(_)
pow2(n) == IF n = 0 THEN 1 ELSE 2 * pow2(n - 1)

\* 2^n modulo m
RECURSIVE pow2_mod(_, _)
pow2_mod(n, m) == IF n = 0 THEN 1 % m ELSE (2 * pow2_mod(n - 1, m)) % m

\* the L with 2^L <= n/d < 2^(L+1), for n > 0
RECURSIVE floor_log2(_, _)
floor_log2(n, d) ==
    IF n >= d
    THEN IF n >= 2 * d THEN 1 + floor_log2(n, 2 * d) ELSE 0
    ELSE floor_log2(2 * n, d) - 1

\* whether the float nearest to t/1000 is below t/1000
float_is_below(t) ==
    LET L == floor_log2(t, 1000)
        r2 == ((t % 2000) * pow2_mod(52 - L, 2000)) % 2000
        r == r2 % 1000
    IN  r # 0 /\ (r < 500 \/ (r = 500 /\ r2 < 1000))

\* int((seconds % 1) * 1000).  seconds % 1 is exact; when seconds is below
\* t/1000 by r / (1000 * 2^(52-L)) the product is below k = t % 1000 by
\* r / 2^(52-L), and it rounds to k only within half a unit in the last place
\* of the floats below k (a tie goes to k, whose significand is even).
frac_millis(t) ==
    LET k == t % 1000
        L == floor_log2(t, 1000)
        r == (((t % 2000) * pow2_mod(52 - L, 2000)) % 2000) % 1000
        j == floor_log2(k, 1)
        x == L + 1 + (IF k = pow2(j) THEN 1 ELSE 0)
        lhs == IF x >= 0 THEN r * pow2(x) ELSE r
        rhs == IF x >= 0 THEN pow2(j) ELSE pow2(j - x)
    IN  IF k = 0 \/ ~float_is_below(t) THEN k
        ELSE IF lhs <= rhs THEN k ELSE k - 1

Digits == <<"0", "1", "2", "3", "4", "5", "6", "7", "8", "9">>

\* str(n) for n >= 0
RECURSIVE str_int(_)
str_int(n) ==
    IF n < 10 THEN <<Digits[n + 1]>> ELSE str_int(n \div 10) \o <<Digits[(n % 10) + 1]>>

\* f"{n:0<width>d}": zeros on the left up to width, never a cut
format_d(n, width) ==
    LET d == str_int(n)
    IN  IF Len(d) >= width THEN d ELSE [i \in 1..(width - Len(d)) |-> "0"] \o d

\* Exporter._to_srt_time
_to_srt_time(t) ==
    LET hours == (t \div 1000) \div 3600
        minutes == ((t \div 1000) % 3600) \div 60
        secs == (t \div 1000) % 60
        millis == frac_millis(t)
    IN  format_d(hours, 2) \o <<":">> \o format_d(minutes, 2) \o <<":">>
            \o format_d(secs, 2) \o <<",">> \o format_d(millis, 3)

\* str.strip
RECURSIVE strip(_)
strip(s) ==
    IF s = <<>> THEN s
    ELSE IF Head(s) = " " THEN strip(Tail(s))
    ELSE IF s[Len(s)] = " " THEN strip(SubSeq(s, 1, Len(s) - 1))
    ELSE s

arrow == <<" ", "-", "-", ">", " ">>

\* the three writes of export_srt for the i-th segment, as lines
srt_cue(i, segment) ==
    << str_int(i),
       _to_srt_time(segment.start) \o arrow \o _to_srt_time(segment.end),
       strip(segment.text),
       <<>> >>

\* the for loop of export_srt: the lines written for result["segments"]
RECURSIVE srt_lines(_, _)
srt_lines(segments, i) ==
    IF i > Len(segments) THEN <<>>
    ELSE srt_cue(i, segments[i]) \o srt_lines(segments, i + 1)

\* export_one appending the path before the file is written, so that a format
\* whose dump raises is returned all the same
export_one_listed_early(acc, base_path, fmt, fault) ==
    IF acc.interrupted THEN acc
    ELSE IF ~known_format(fmt) THEN acc
    ELSE LET path == format_path(base_path, fmt)
         IN  CASE fault \in {"ok", "write_raises"} ->
                    [acc EXCEPT !.exported_files = Append(@, path), !.dir = @ \cup {path}]
               [] fault = "open_raises" -> acc
               [] OTHER -> [acc EXCEPT !.dir = @ \cup {path}, !.interrupted = TRUE]

\* One iteration of the for loop of Exporter.export.  acc is the state of the
\* call: exported_files, the output directory, and whether a KeyboardInterrupt
\* (no Exception, so not caught) left the loop.  fault is what the format's
\* export does: "ok"; "open_raises" (open() fails, nothing created);
\* "write_raises" (the file is created, the dump raises); "interrupt".
export_one(acc, base_path, fmt, fault) ==
    IF acc.interrupted THEN acc
    ELSE IF ~known_format(fmt) THEN acc
    ELSE LET path == format_path(base_path, fmt)
         IN  CASE fault = "ok" ->
                    [acc EXCEPT !.exported_files = Append(@, path), !.dir = @ \cup {path}]
               [] fault = "open_raises" -> acc
               [] fault = "write_raises" -> [acc EXCEPT !.dir = @ \cup {path}]
               [] OTHER -> [acc EXCEPT !.dir = @ \cup {path}, !.interrupted = TRUE]

\* Exporter.export
RECURSIVE export_from(_, _, _, _, _)
export_from(acc, base_path, formats, fs, i) ==
    IF i > Len(formats) THEN acc
    ELSE export_from(export_one(acc, base_path, formats[i], fs[i]), base_path, formats, fs, i + 1)

export(dir, base_path, formats, fs) ==
    export_from([exported_files |-> <<>>, dir |-> dir, interrupted |-> FALSE],
                base_path, formats, fs, 1)

(***************************************************************************)
(* TranscriptionPipeline                                                   *)
(***************************************************************************)
NoResult == [segments |-> "none", speakers |-> FALSE]
NoFile == <<>>

\* one call to an external collaborator (or one way run() is left)
Event(op, f, d, r) == [op |-> op, f |-> f, d |-> d, r |-> r]

Outcomes == {"ok", "raise", "interrupt"}
DiarizeOutcomes == {"ok", "load_raises", "model_raises", "assign_raises", "interrupt"}
Faults == {"ok", "open_raises", "write_raises", "interrupt"}

skip_existing(cfg) == truthy(get(cfg, <<"processing", "skip_existing">>, Bool(FALSE)))
alignment_enabled(cfg) == truthy(get(cfg, <<"alignment", "enabled">>, Bool(TRUE)))
diarization_enabled(cfg) == truthy(get(cfg, <<"diarization", "enabled">>, Bool(FALSE)))

\* TranscriptionPipeline.__init__: self.stats
new_stats == [total |-> 0, success |-> 0, failed |-> 0, skipped |-> 0]

\* the loop counting a file whose _process_file returned as failed
on_return_as_failed(st) == [st EXCEPT !.failed = @ + 1]

\* run: self.stats['success'] += 1 after _process_file returned
on_return(st) == [st EXCEPT !.success = @ + 1]

\* the handler counting the failed file as a success
on_exception_as_success(st) == [st EXCEPT !.success = @ + 1]

\* run: the except Exception handler of the loop
on_exception(st) == [st EXCEPT !.failed = @ + 1]

\* _process_file: the skip branch
on_skip(st) == [st EXCEPT !.skipped = @ + 1]

\* _process_file: the skip check
should_skip(cfg, dir, audio_path) ==
    skip_existing(cfg) /\ output_exists(dir, audio_path, output_formats(cfg).v)

\* transcription followed by alignment whatever alignment.enabled says
after_transcribe_always_align(cfg) == "align"

\* _process_file: the stage that follows transcription / alignment
after_transcribe(cfg) ==
    IF alignment_enabled(cfg) THEN "align"
    ELSE IF diarization_enabled(cfg) THEN "diarize" ELSE "export"

after_align(cfg) == IF diarization_enabled(cfg) THEN "diarize" ELSE "export"

\* _diarize keeping the labels of a speaker assignment that failed part-way
_diarize_partial(res, o) ==
    IF o \in {"ok", "assign_raises"} THEN [res EXCEPT !.speakers = TRUE] ELSE res

\* _diarize: the result it returns; every Exception of its body is caught
_diarize(res, o) == IF o = "ok" THEN [res EXCEPT !.speakers = TRUE] ELSE res

\* the file the loop of run() is at
audio_file == audio_files[idx + 1]

\* main: sys.exit of the handlers around Config(...) and pipeline.run()
exit_config_error == 1
exit_fatal == 1
exit_normal == 0

\* the KeyboardInterrupt handler exiting like the fatal-error handler
exit_interrupt_as_error == exit_fatal

exit_interrupt == 0

Exit(code) == pc' = "exit" /\ exit_code' = code

\* the loop's except handler: the file is failed, the loop goes on
FailFile(l, stage) ==
    /\ log' = Append(l, Event("Exception", audio_file, stage, NoResult))
    /\ stats' = on_exception(stats)
    /\ idx' = idx + 1
    /\ pc' = "loop"
    /\ UNCHANGED exit_code

\* main 85-94
LoadConfig ==
    /\ pc = "start"
    /\ LET r == load_config(config_file)
       IN  IF r.raised # "no"
           THEN Exit(exit_config_error) /\ UNCHANGED config
           ELSE config' = r.cfg /\ pc' = "overrides" /\ UNCHANGED exit_code
    /\ UNCHANGED <<srt_file, platform, config_file, args, input_dir, output_dir, pipeline,
                   stats, audio_files, idx, result, log, faults, ret>>

\* main 96-104; an exception here is caught by nothing: traceback, status 1
ApplyOverrides ==
    /\ pc = "overrides"
    /\ LET r == apply_overrides(config, args)
       IN  IF r.raised
           THEN Exit(exit_fatal) /\ UNCHANGED config
           ELSE config' = r.cfg /\ pc' = "init" /\ UNCHANGED exit_code
    /\ UNCHANGED <<srt_file, platform, config_file, args, input_dir, output_dir, pipeline,
                   stats, audio_files, idx, result, log, faults, ret>>

\* TranscriptionPipeline.__init__
PipelineInit ==
    /\ pc = "init"
    /\ pipeline' = [device |-> device_type(config).v,
                    input_dir |-> input_path(config).v,
                    output_dir |-> output_path(config).v,
                    audio_extensions |->
                        FileHandler_audio_extensions(audio_extensions(config).v)]
    /\ stats' = new_stats
    /\ pc' = "load_whisper"
    /\ UNCHANGED <<srt_file, platform, config_file, args, config, input_dir, output_dir,
                   exit_code, audio_files, idx, result, log, faults, ret>>

\* run 56-60
LoadWhisper ==
    /\ pc = "load_whisper"
    /\ \E o \in Outcomes :
        LET l == Append(log, Event("load_whisper_model", NoFile, whisper_model(config).v, NoResult))
        IN  CASE o = "ok" -> log' = l /\ pc' = "find" /\ UNCHANGED exit_code
              [] o = "raise" ->
                    /\ log' = Append(l, Event("fatal", NoFile, "", NoResult))
                    /\ Exit(exit_fatal)
              [] OTHER ->
                    /\ log' = Append(l, Event("KeyboardInterrupt", NoFile, "", NoResult))
                    /\ Exit(exit_interrupt)
    /\ UNCHANGED <<srt_file, platform, config_file, args, config, input_dir, output_dir,
                   pipeline, stats, audio_files, idx, result, faults, ret>>

\* run 62-69
FindFiles ==
    /\ pc = "find"
    /\ LET found == find_audio_files(input_dir, pipeline.audio_extensions)
           l == Append(log, Event("find_audio_files", NoFile, "", NoResult))
       IN  /\ audio_files' = found
           /\ idx' = 0
           /\ IF found = <<>>
              THEN /\ log' = Append(l, Event("return", NoFile, "", NoResult))
                   /\ Exit(exit_normal)
                   /\ UNCHANGED stats
              ELSE /\ log' = l
                   /\ stats' = [stats EXCEPT !.total = Len(found)]
                   /\ pc' = "loop"
                   /\ UNCHANGED exit_code
    /\ UNCHANGED <<srt_file, platform, config_file, args, config, input_dir, output_dir,
                   pipeline, result, faults, ret>>

\* run 72-75 entering _process_file 93-102
BeginFile ==
    /\ pc = "loop"
    /\ idx < Len(audio_files)
    /\ LET l == Append(log, Event("_process_file", audio_file, "", NoResult))
       IN  IF should_skip(config, output_dir, audio_file)
           THEN /\ log' = Append(l, Event("skipped", audio_file, "", NoResult))
                /\ stats' = on_return(on_skip(stats))
                /\ idx' = idx + 1
                /\ pc' = "loop"
           ELSE /\ log' = l
                /\ pc' = "load_audio"
                /\ UNCHANGED <<stats, idx>>
    /\ UNCHANGED <<srt_file, platform, config_file, args, config, input_dir, output_dir,
                   exit_code, pipeline, audio_files, result, faults, ret>>

\* _process_file 104-105
LoadAudio ==
    /\ pc = "load_audio"
    /\ \E o \in Outcomes :
        LET l == Append(log, Event("load_audio", audio_file, "", NoResult))
        IN  CASE o = "ok" -> log' = l /\ pc' = "transcribe" /\ UNCHANGED <<stats, idx, exit_code>>
              [] o = "raise" -> FailFile(l, "load_audio")
              [] OTHER ->
                    /\ log' = Append(l, Event("KeyboardInterrupt", audio_file, "", NoResult))
                    /\ Exit(exit_interrupt)
                    /\ UNCHANGED <<stats, idx>>
    /\ UNCHANGED <<srt_file, platform, config_file, args, config, input_dir, output_dir,
                   pipeline, audio_files, result, faults, ret>>

\* _process_file 107-108, _transcribe
Transcribe ==
    /\ pc = "transcribe"
    /\ \E o \in Outcomes :
        LET l == Append(log, Event("transcribe", audio_file, "", NoResult))
        IN  CASE o = "ok" ->
                    /\ log' = l
                    /\ result' = [segments |-> "transcribed", speakers |-> FALSE]
                    /\ pc' = after_transcribe(config)
                    /\ UNCHANGED <<stats, idx, exit_code>>
              [] o = "raise" -> FailFile(l, "transcribe") /\ UNCHANGED result
              [] OTHER ->
                    /\ log' = Append(l, Event("KeyboardInterrupt", audio_file, "", NoResult))
                    /\ Exit(exit_interrupt)
                    /\ UNCHANGED <<stats, idx, result>>
    /\ UNCHANGED <<srt_file, platform, config_file, args, config, input_dir, output_dir,
                   pipeline, audio_files, faults, ret>>

\* _process_file 110-112, _align
Align ==
    /\ pc = "align"
    /\ \E o \in Outcomes :
        LET l == Append(log, Event("align", audio_file, "", result))
        IN  CASE o = "ok" ->
                    /\ log' = l
                    /\ result' = [segments |-> "aligned", speakers |-> FALSE]
                    /\ pc' = after_align(config)
                    /\ UNCHANGED <<stats, idx, exit_code>>
              [] o = "raise" -> FailFile(l, "align") /\ UNCHANGED result
              [] OTHER ->
                    /\ log' = Append(l, Event("KeyboardInterrupt", audio_file, "", NoResult))
                    /\ Exit(exit_interrupt)
                    /\ UNCHANGED <<stats, idx, result>>
    /\ UNCHANGED <<srt_file, platform, config_file, args, config, input_dir, output_dir,
                   pipeline, audio_files, faults, ret>>

\* _process_file 114-116, _diarize
Diarize ==
    /\ pc = "diarize"
    /\ \E o \in DiarizeOutcomes :
        LET l == Append(log, Event("diarize", audio_file, o, result))
        IN  IF o = "interrupt"
            THEN /\ log' = Append(l, Event("KeyboardInterrupt", audio_file, "", NoResult))
                 /\ Exit(exit_interrupt)
                 /\ UNCHANGED result
            ELSE /\ log' = l
                 /\ result' = _diarize(result, o)
                 /\ pc' = "export"
                 /\ UNCHANGED exit_code
    /\ UNCHANGED <<srt_file, platform, config_file, args, config, input_dir, output_dir,
                   pipeline, stats, audio_files, idx, faults, ret>>

\* _process_file 118-126 and the return to run 75
Export ==
    /\ pc = "export"
    /\ LET formats == output_formats(config).v
       IN  \E fs \in [1..Len(formats) -> Faults] :
            LET e == export(output_dir, get_output_path(audio_file, <<>>), formats, fs)
                l == Append(log, Event("export", audio_file, "", result))
            IN  /\ faults' = fs
                /\ output_dir' = e.dir
                /\ IF e.interrupted
                   THEN /\ log' = Append(l, Event("KeyboardInterrupt", audio_file, "", NoResult))
                        /\ Exit(exit_interrupt)
                        /\ UNCHANGED <<stats, idx, ret>>
                   ELSE /\ log' = l
                        /\ ret' = e.exported_files
                        /\ stats' = on_return(stats)
                        /\ idx' = idx + 1
                        /\ pc' = "loop"
                        /\ UNCHANGED exit_code
    /\ UNCHANGED <<srt_file, platform, config_file, args, config, input_dir, pipeline,
                   audio_files, result>>

\* run 80-81
Cleanup ==
    /\ pc = "loop"
    /\ idx = Len(audio_files)
    /\ log' = Append(log, Event("cleanup", NoFile, "", NoResult))
    /\ pc' = "stats"
    /\ UNCHANGED <<srt_file, platform, config_file, args, config, input_dir, output_dir,
                   exit_code, pipeline, stats, audio_files, idx, result, faults, ret>>

\* run 83-84 and the normal end of main
PrintStats ==
    /\ pc = "stats"
    /\ log' = Append(Append(log, Event("print_stats", NoFile, "", NoResult)),
                     Event("return", NoFile, "", NoResult))
    /\ Exit(exit_normal)
    /\ UNCHANGED <<srt_file, platform, config_file, args, config, input_dir, output_dir,
                   pipeline, stats, audio_files, idx, result, faults, ret>>

Next ==
    \/ LoadConfig
    \/ ApplyOverrides
    \/ PipelineInit
    \/ LoadWhisper
    \/ FindFiles
    \/ BeginFile
    \/ LoadAudio
    \/ Transcribe
    \/ Align
    \/ Diarize
    \/ Export
    \/ Cleanup
    \/ PrintStats

(***************************************************************************)
(* Initial states                                                          *)
(***************************************************************************)
\* all sequences over S of length at most n
Seqs(S, n) == UNION {[1..k -> S] : k \in 0..n}

\* a section or key left out of the YAML file
Absent == [t |-> "absent"]

with(d, key, val) ==
    IF val.t = "absent" THEN d
    ELSE [k \in DOMAIN d \cup {key} |-> IF k = key THEN val ELSE d[k]]

section(key, val) == IF val.t = "absent" THEN Absent ELSE Dict(with(<<>>, key, val))

Yaml(tree) == [t |-> "yaml", v |-> tree]

\* a configuration file that sets (or leaves out) the processing options
ProcessingTree(skip, align, diar, formats, exts) ==
    Dict(with(with(with(with(<<>>,
        "processing", IF skip.t = "absent" /\ exts.t = "absent" THEN Absent
                      ELSE Dict(with(with(<<>>, "skip_existing", skip),
                                     "audio_extensions", exts))),
        "alignment", section("enabled", align)),
        "diarization", section("enabled", diar)),
        "output", section("formats", formats)))

NoArgs == [input |-> None, output |-> None, device |-> None, model |-> None]

Letters == <<"a", "b", "c", "d", "i", "j">>

\* the i-th audio file name: a.mp3, b.wav, c.mp3, ...
AudioName(i) == <<Letters[i]>> \o (IF i % 2 = 1 THEN mp3 ELSE wav)

\* the outputs an earlier run is expected to have left for the files S
Expected(S, fmts) == {get_output_path(n, f) : n \in S, f \in fmts}

Platforms == {[posix |-> TRUE, py314 |-> b] : b \in BOOLEAN}

InitRest ==
    /\ config = None
    /\ pc = "start"
    /\ exit_code = -1
    /\ pipeline = [device |-> "", input_dir |-> "", output_dir |-> "",
                   audio_extensions |-> <<>>]
    /\ stats = new_stats
    /\ audio_files = <<>>
    /\ idx = 0
    /\ result = NoResult
    /\ log = <<>>
    /\ faults = <<>>
    /\ ret = <<>>
    /\ srt_file = <<>>

\* runs over up to MaxFiles files with a plain configuration
InitManyFiles ==
    /\ platform \in Platforms
    /\ \E skip \in {Absent, Bool(TRUE)}, formats \in {List(<<>>), List(<<json>>)} :
        config_file = Yaml(ProcessingTree(skip, Absent, Absent, formats, Absent))
    /\ input_dir \in SUBSET {AudioName(i) : i \in 1..MaxFiles}
    /\ output_dir \in {{}, Expected({AudioName(1)}, {json})}
    /\ InitRest
    /\ args = NoArgs

\* runs over at most one file with every combination of the processing options
InitOneFile ==
    /\ platform \in Platforms
    /\ \/ config_file \in {[t |-> "missing"], [t |-> "malformed"], Yaml(None)}
       \/ \E skip \in {Absent, Bool(FALSE), Bool(TRUE)},
             align \in {Absent, Bool(FALSE)},
             diar \in {Absent, Bool(TRUE)},
             formats \in {Absent} \cup {List(l) : l \in Seqs({json, srt, xml}, MaxFormats)} :
            config_file = Yaml(ProcessingTree(skip, align, diar, formats, Absent))
    /\ input_dir \in SUBSET {AudioName(1)}
    /\ output_dir \in {{}, Expected({AudioName(1)}, {json}),
                       Expected({AudioName(1)}, {json, txt, srt, xml})}
    /\ InitRest
    /\ args = NoArgs

Init == InitManyFiles \/ InitOneFile

Spec == Init /\ [][Next]_vars

\* a configuration file that sets (or leaves out) the sections main overrides;
\* diarization is enabled so that every stage runs
MainTree(paths, device, whisper) ==
    Dict(with(with(with(with(with(<<>>,
        "paths", paths),
        "device", device),
        "whisper", whisper),
        "diarization", section("enabled", Bool(TRUE))),
        "output", section("formats", List(<<json>>))))

\* main with every combination of the four flags over files with and without
\* the sections the flags write into
InitMain ==
    /\ platform \in Platforms
    /\ \/ config_file = Yaml(None)
       \/ \E paths \in {Absent, None, Dict(<<>>),
                        Dict([input |-> Str("in1"), output |-> Str("out1")])},
             device \in {Absent, Dict([type |-> Str("cpu")])},
             whisper \in {Absent, Dict([model_size |-> Str("base")])} :
            config_file = Yaml(MainTree(paths, device, whisper))
    /\ input_dir \in SUBSET {AudioName(1)}
    /\ output_dir = {}
    /\ InitRest
    /\ args \in [input : {None, Str(""), Str("in2")},
                 output : {None, Str("out2")},
                 device : {None, Str("auto")},
                 model : {None, Str("tiny")}]

SpecMain == InitMain /\ [][Next]_vars

\* file discovery: directories and extension lists
MP3 == <<".", "M", "P", "3">>
DirNames == {<<"b">> \o MP3, <<"a">> \o wav, <<"c", ".">> \o txt, <<"d">> \o mp3}

InitDiscover ==
    /\ platform \in {[posix |-> b, py314 |-> FALSE] : b \in BOOLEAN}
    /\ \E exts \in Seqs({mp3, wav, MP3}, MaxExts) :
        config_file = Yaml(ProcessingTree(Absent, Absent, Absent, Absent, List(exts)))
    /\ input_dir \in SUBSET DirNames
    /\ output_dir = {}
    /\ InitRest
    /\ args = NoArgs

\* main up to the return of find_audio_files
NextDiscover ==
    \/ LoadConfig
    \/ ApplyOverrides
    \/ PipelineInit
    \/ LoadWhisper
    \/ FindFiles

SpecDiscover == InitDiscover /\ [][NextDiscover]_vars

\* one call of Exporter.export, for every list of formats
InitExport ==
    /\ platform \in Platforms
    /\ \E l \in Seqs({json, txt, srt, xml}, MaxFormats) :
        /\ config_file = Yaml(ProcessingTree(Absent, Absent, Absent, List(l), Absent))
        /\ config = config_file.v
    /\ args = NoArgs
    /\ input_dir = {AudioName(1)}
    /\ output_dir = {}
    /\ pc = "export"
    /\ exit_code = -1
    /\ pipeline = [device |-> "cuda", input_dir |-> "data/input",
                   output_dir |-> "data/output", audio_extensions |-> <<mp3, wav>>]
    /\ stats = [new_stats EXCEPT !.total = 1]
    /\ audio_files = <<AudioName(1)>>
    /\ idx = 0
    /\ result = [segments |-> "aligned", speakers |-> FALSE]
    /\ log = <<>>
    /\ faults = <<>>
    /\ ret = <<>>
    /\ srt_file = <<>>

SpecExport == InitExport /\ [][Export]_vars

\* one call of Exporter.export_srt
ExportSrt ==
    /\ pc = "export_srt"
    /\ srt_file' = srt_lines(result.segments, 1)
    /\ output_dir' = output_dir \cup {export_srt(get_output_path(audio_file, <<>>))}
    /\ pc' = "exported_srt"
    /\ UNCHANGED <<platform, config_file, args, config, input_dir, exit_code, pipeline,
                   stats, audio_files, idx, result, log, faults, ret>>

\* times at which a field of the timestamp changes its value or its width
FieldEdges == {59999, 60000, 75400, 3599999, 3600000, 3661005,
               359999999, 360000000}

Times == (0..MaxMillis) \cup FieldEdges

Text == <<" ", "o", "i", " ">>

\* n segments of SegmentMillis each, one after the other from t on
Segments(t, n) ==
    [i \in 1..n |-> [start |-> t + (i - 1) * SegmentMillis,
                     end |-> t + i * SegmentMillis,
                     text |-> Text]]

\* one call of Exporter.export_srt, for every list of segments
InitSrt ==
    /\ platform \in Platforms
    /\ config_file = Yaml(ProcessingTree(Absent, Absent, Absent, List(<<srt>>), Absent))
    /\ config = config_file.v
    /\ args = NoArgs
    /\ input_dir = {AudioName(1)}
    /\ output_dir = {}
    /\ pc = "export_srt"
    /\ exit_code = -1
    /\ pipeline = [device |-> "cuda", input_dir |-> "data/input",
                   output_dir |-> "data/output", audio_extensions |-> <<mp3, wav>>]
    /\ stats = [new_stats EXCEPT !.total = 1]
    /\ audio_files = <<AudioName(1)>>
    /\ idx = 0
    /\ \E t \in Times, n \in 0..MaxSegments :
        result = [segments |-> Segments(t, n), speakers |-> FALSE]
    /\ log = <<>>
    /\ faults = <<>>
    /\ ret = <<>>
    /\ srt_file = <<>>

SpecSrt == InitSrt /\ [][ExportSrt]_vars

(***************************************************************************)
(* Reading the history                                                     *)
(***************************************************************************)
Idx(op) == {i \in 1..Len(log) : log[i].op = op}
Count(op) == Cardinality(Idx(op))
LastOp == IF log = <<>> THEN "" ELSE log[Len(log)].op
Returned == LastOp = "return"
IsProcessFile(e) == e.op = "_process_file"
IsRunLevel(e) ==
    e.op \in {"load_whisper_model", "find_audio_files", "cleanup", "print_stats", "return"}
Ops(s) == [i \in 1..Len(s) |-> s[i].op]

(***************************************************************************)
(* C1: a file whose audio load, transcription or alignment raises is       *)
(* counted once in 'failed'; the files are attempted in discovery order,   *)
(* each exactly once and never again; after a failure the loop goes on     *)
(* with the next file, and a run that is not interrupted reaches the end   *)
(* of the list.  Three files of which only the second throws in            *)
(* transcription give total=3, success=2, failed=1, skipped=0.             *)
(***************************************************************************)
C1_FailureIsolation ==
    LET started == SelectSeq(log, IsProcessFile)
        n == Len(started)
    IN  /\ idx <= Len(audio_files)
        /\ n <= Len(audio_files)
        /\ \A i \in 1..n : started[i].f = audio_files[i]
        /\ stats.failed = Count("Exception")
        /\ \A i, j \in Idx("Exception") : log[i].f = log[j].f => i = j
        /\ \A i \in Idx("Exception") :
            /\ log[i].d \in {"load_audio", "transcribe", "align"}
            /\ i = Len(log) => pc = "loop"
            /\ i < Len(log) => log[i + 1].op \in {"_process_file", "cleanup"}
        /\ pc = "loop" => ENABLED (BeginFile \/ Cleanup)
        /\ Count("cleanup") > 0 => n = Len(audio_files)
        /\ (Returned /\ audio_files # <<>>) =>
            /\ stats.total = Len(audio_files)
            /\ stats.success = Len(audio_files) - Count("Exception")
        /\ (/\ Returned
            /\ Len(audio_files) = 3
            /\ Count("skipped") = 0
            /\ \E k \in 1..Len(log) :
                /\ Idx("Exception") = {k}
                /\ log[k].f = audio_files[2]
                /\ log[k].d = "transcribe")
           => stats = [total |-> 3, success |-> 2, failed |-> 1, skipped |-> 0]

C1_Witness ==
    /\ Returned
    /\ Len(audio_files) = 3
    /\ stats = [total |-> 3, success |-> 2, failed |-> 1, skipped |-> 0]
    /\ \E k \in 1..Len(log) :
        /\ Idx("Exception") = {k}
        /\ log[k].f = audio_files[2]
        /\ log[k].d = "transcribe"
    /\ \E k \in Idx("export") : log[k].f = audio_files[3]

(***************************************************************************)
(* C2: after a completed run over a non-empty file list every file is      *)
(* counted in exactly one of success, failed and skipped:                  *)
(* success + failed + skipped = total.                                     *)
(***************************************************************************)
C2_ExactlyOneOutcome ==
    (Returned /\ audio_files # <<>>) =>
        stats.success + stats.failed + stats.skipped = stats.total

(***************************************************************************)
(* C3: a file is skipped exactly when processing.skip_existing is enabled  *)
(* and {stem}_transcricao.{fmt} exists in the output directory for every   *)
(* configured format; a skipped file adds one to 'skipped' and no stage    *)
(* (audio load, transcription, alignment, diarization, export) runs for it.*)
(***************************************************************************)
C3_SkipExisting ==
    LET formats == output_formats(config).v
        enabled == get(config, <<"processing", "skip_existing">>, Bool(FALSE)) = Bool(TRUE)
        present(f) ==
            \A k \in 1..Len(formats) : (stem(f) \o Transcricao \o formats[k]) \in output_dir
    IN  /\ stats.skipped = Count("skipped")
        /\ \A i \in Idx("skipped") :
            /\ enabled
            /\ present(log[i].f)
            /\ \A j \in 1..Len(log) :
                log[j].f = log[i].f => log[j].op \in {"_process_file", "skipped"}
        /\ pc = "load_audio" => ~(enabled /\ present(audio_file))

C3_Witness ==
    /\ Returned
    /\ stats.skipped = 1
    /\ Count("skipped") = 1
    /\ Len(output_formats(config).v) > 0

(***************************************************************************)
(* C4: after a file was exported with formats drawn from json, txt, srt    *)
(* and no export failed, {stem}_transcricao.{ext} exists in the output     *)
(* directory for every configured ext, i.e. the skip check finds them.     *)
(***************************************************************************)
C4_WrittenPathsAreSkipPaths ==
    LET formats == output_formats(config).v
    IN  (/\ LastOp = "export"
         /\ \A k \in 1..Len(formats) : formats[k] \in {json, txt, srt} /\ faults[k] = "ok")
        => \A k \in 1..Len(formats) :
              (stem(log[Len(log)].f) \o Transcricao \o formats[k]) \in output_dir

(***************************************************************************)
(* C5: every run that loaded the model and returns made the calls          *)
(* load model, discover files, cleanup, print statistics, in this order    *)
(* and once each, whatever the number of files found.                      *)
(***************************************************************************)
C5_CleanupAlways ==
    Returned =>
        Ops(SelectSeq(log, IsRunLevel)) =
            <<"load_whisper_model", "find_audio_files", "cleanup", "print_stats", "return">>

C8_ExitCode ==
    /\ pc # "exit" => exit_code = -1
    /\ \A i \in Idx("KeyboardInterrupt") : i = Len(log) /\ pc = "exit"
    /\ pc = "exit" =>
        CASE config_file.t \in {"missing", "malformed"} -> exit_code = 1 /\ log = <<>>
          [] LastOp = "KeyboardInterrupt" -> exit_code = 0
          [] LastOp = "return" -> exit_code = 0
          [] LastOp = "fatal" -> exit_code = 1
          [] log = <<>> -> exit_code = 1

C8_Witness ==
    /\ pc = "exit"
    /\ exit_code = 0
    /\ LastOp = "KeyboardInterrupt"
    /\ Len(audio_files) >= 2
    /\ log[Len(log)].f = audio_files[2]
    /\ log[Len(log) - 1].op = "export"
    /\ stats.failed = 1

(***************************************************************************)
(* C6: Exporter.export attempts every requested format on its own: it      *)
(* leaves with an exception only when interrupted, never because a         *)
(* serialization raised; the list it returns holds, in request order, the  *)
(* paths of exactly the known formats (json, txt, srt) whose export did    *)
(* not fail, each of which exists afterwards; unknown names are left out.  *)
(***************************************************************************)
C6_ExportIndependent ==
    LET formats == output_formats(config).v
        n == Len(formats)
        good(k) == formats[k] \in {json, txt, srt} /\ faults[k] = "ok"
        wanted == SelectSeq([k \in 1..n |-> k], good)
        base == get_output_path(audio_files[1], <<>>)
        path(k) == stem(base) \o <<".">> \o formats[k]
    IN  /\ Count("Exception") = 0
        /\ LastOp = "KeyboardInterrupt" =>
              \E k \in 1..n : formats[k] \in {json, txt, srt} /\ faults[k] = "interrupt"
        /\ LastOp = "export" =>
            /\ Len(faults) = n
            /\ pc = "loop"
            /\ ret = [i \in 1..Len(wanted) |-> path(wanted[i])]
            /\ \A i \in 1..Len(wanted) : path(wanted[i]) \in output_dir

C6_Witness ==
    /\ LastOp = "export"
    /\ output_formats(config).v = <<json, srt>>
    /\ faults = <<"write_raises", "ok">>
    /\ Len(ret) = 1
    /\ ret[1] \in output_dir

(***************************************************************************)
(* C9: for every configuration file that loads, the pipeline is built, and *)
(* it is built with the input directory, output directory, device and      *)
(* model of the flags that are present, and with the file's value or the   *)
(* default for the others.                                                 *)
(***************************************************************************)
C9_FlagsTakePrecedence ==
    LET pick(flag, keys, default) ==
            IF flag.t # "none" THEN flag.v ELSE get(config_file.v, keys, Str(default)).v
    IN  (config_file.t = "yaml" /\ pc \notin {"start", "overrides", "init"}) =>
            /\ pipeline.input_dir = pick(args.input, <<"paths", "input">>, "data/input")
            /\ pipeline.output_dir = pick(args.output, <<"paths", "output">>, "data/output")
            /\ pipeline.device = pick(args.device, <<"device", "type">>, "cuda")
            /\ Idx("load_whisper_model") # {} =>
                  log[1].d = pick(args.model, <<"whisper", "model_size">>, "large-v2")

(***************************************************************************)
(* C10: find_audio_files returns exactly the files of the input directory  *)
(* whose name ends, compared case-insensitively, with one of the           *)
(* configured extensions, each once, in lexicographic order.               *)
(***************************************************************************)
C10_FindAudioFiles ==
    LET exts == audio_extensions(config).v
        matches(n) == \E k \in 1..Len(exts) : endswith(lower(n), lower(exts[k]))
        found == Idx("find_audio_files") # {}
    IN  found =>
            /\ {audio_files[i] : i \in 1..Len(audio_files)} = {n \in input_dir : matches(n)}
            /\ \A i, j \in 1..Len(audio_files) :
                  i < j => str_less(audio_files[i], audio_files[j])

(***************************************************************************)
(* C11: _to_srt_time maps a time of t milliseconds to HH:MM:SS,mmm with    *)
(* hours = floor(s/3600), minutes = floor((s%3600)/60), seconds =          *)
(* floor(s%60) and milliseconds = floor((s%1)*1000) for s = t/1000, every  *)
(* field exactly 2 digits wide (3 for the milliseconds); and export_srt    *)
(* writes one cue per segment, numbered 1..n in the order of the segments. *)
(***************************************************************************)
C11_SrtTime ==
    LET field(n, width) == [i \in 1..width |-> Digits[((n \div (10 ^ (width - i))) % 10) + 1]]
        time(t) == field(t \div 3600000, 2) \o <<":">> \o field((t % 3600000) \div 60000, 2)
                       \o <<":">> \o field((t % 60000) \div 1000, 2)
                       \o <<",">> \o field(t % 1000, 3)
        segments == result.segments
    IN  pc = "exported_srt" =>
            /\ Len(srt_file) = 4 * Len(segments)
            /\ \A i \in 1..Len(segments) :
                /\ srt_file[4 * i - 3] = str_int(i)
                /\ srt_file[4 * i - 2]
                       = time(segments[i].start) \o arrow \o time(segments[i].end)
                /\ srt_file[4 * i - 2][1] \in {"0", "1", "2", "3", "4", "5", "6", "7", "8", "9"}
                /\ Len(srt_file[4 * i - 2]) = 12 + Len(arrow) + 12

(***************************************************************************)
(* C12: for every file that is not skipped the stages run in the order     *)
(* load audio, transcribe, align, diarize, export, each at most once;      *)
(* alignment runs iff alignment.enabled is true (default true) and         *)
(* diarization iff diarization.enabled is true (default false); export is  *)
(* reached only after audio load, transcription and (when enabled)         *)
(* alignment completed without an exception, and after an exception in one *)
(* of those three stages no later stage of the file runs.                  *)
(***************************************************************************)
C12_StageOrder ==
    LET expected == <<"load_audio", "transcribe">>
                        \o (IF alignment_enabled(config) THEN <<"align">> ELSE <<>>)
                        \o (IF diarization_enabled(config) THEN <<"diarize">> ELSE <<>>)
                        \o <<"export">>
        IsStage(op) == op \in {"load_audio", "transcribe", "align", "diarize", "export"}
        IsPrefix(a, b) == Len(a) <= Len(b) /\ a = SubSeq(b, 1, Len(a))
    IN  \A p \in Idx("_process_file") :
            \* the events of the file whose _process_file call is log[p]
            LET later == {q \in (p + 1)..Len(log) : log[q].op \in {"_process_file", "cleanup"}}
                last == IF later = {} THEN Len(log)
                        ELSE (CHOOSE q \in later : \A q2 \in later : q <= q2) - 1
                body == Ops(SubSeq(log, p + 1, last))
                stages == SelectSeq(body, IsStage)
                raised == \E k \in 1..Len(body) : body[k] = "Exception"
                interrupted == \E k \in 1..Len(body) : body[k] = "KeyboardInterrupt"
                left == last < Len(log) \/ pc \in {"loop", "stats", "exit"}
            IN  body # <<"skipped">> =>
                    /\ IsPrefix(stages, expected)
                    /\ raised =>
                        /\ stages # <<>>
                        /\ body = Append(stages, "Exception")
                        /\ stages[Len(stages)] \in {"load_audio", "transcribe", "align"}
                        /\ log[last].d = stages[Len(stages)]
                    /\ (left /\ ~raised /\ ~interrupted) => body = expected
                    /\ \A k \in 1..Len(body) :
                        body[k] = "export" =>
                            /\ SubSeq(body, 1, k) = expected
                            /\ ~raised

\* a file with alignment and diarization enabled went through all five stages
C12_Witness ==
    \E p \in Idx("export") :
        /\ p >= 5
        /\ Ops(SubSeq(log, p - 4, p))
               = <<"load_audio", "transcribe", "align", "diarize", "export">>
        /\ pc = "loop"
        /\ alignment_enabled(config) /\ diarization_enabled(config)

(***************************************************************************)
(* C13: whether a file counts as a success does not depend on any output   *)
(* having been written.  Every file whose export call returned is counted  *)
(* in 'success' and not in 'failed', whatever list Exporter.export         *)
(* returned: also when every requested format failed, when the list of     *)
(* formats is empty and when it holds only unknown names.                  *)
(***************************************************************************)
C13_SuccessWithoutOutput ==
    LET returned == {i \in Idx("export") \cup Idx("skipped") :
                        i = Len(log) \/ log[i + 1].op # "KeyboardInterrupt"}
        exported == {i \in Idx("export") : i \in returned}
    IN  /\ stats.success = Cardinality(returned)
        /\ stats.failed = Count("Exception")
        /\ \A i \in exported : \A k \in Idx("Exception") : log[k].f # log[i].f \/ k < i
        /\ (LastOp = "export" /\ pc = "loop") =>
            /\ stats.success >= 1
            /\ idx = Cardinality(exported) + Count("skipped") + stats.failed

\* the only file went through export, both of its formats failed before
\* anything was written, and the file is counted as a success
C13_Witness ==
    /\ LastOp = "export"
    /\ pc = "loop"
    /\ Len(output_formats(config).v) = MaxFormats
    /\ \A i \in 1..Len(output_formats(config).v) :
        known_format(output_formats(config).v[i]) /\ faults[i] = "open_raises"
    /\ ret = <<>>
    /\ output_dir = {}
    /\ stats = [total |-> 1, success |-> 1, failed |-> 0, skipped |-> 0]
====
